---- MODULE Spec2Model ----
(***************************************************************************)
(* A model of scripts/Fusions.py: the multimodal fusion experiments.       *)
(*                                                                         *)
(* Real numbers are exact rationals <<num, den>> in lowest terms with      *)
(* den > 0; the missing value (NaN) is <<0, 0>>.  A matrix is a sequence   *)
(* of rows, a row a sequence of cells.  The trainable models of sklearn    *)
(* are opaque: fit and predict raise where the library raises, and the     *)
(* predictions are any vector the fitted estimator can return.             *)
(***************************************************************************)
EXTENDS Integers, Sequences, FiniteSets, TLC

VARIABLES
    pc,                \* "start", "loop" (inside optimize_c's for), "done", "raised"
    fn,                \* the function of Fusions.py that is called
    multimodal_files,  \* early_fusion's argument: the tables read by read_csv
    models,            \* the positional (train, test) pairs handed to a late fusion
    train_data,        \* single-modality arguments
    test_data,
    train_labels,
    test_labels,
    fit_calls,         \* the matrix handed to each clf.fit / pca.fit_transform, and
                       \* whether the call returned (ok) or raised
    predict_calls,     \* the same for each clf.predict / pca.transform
    prediction_matrix, \* the per-modality predictions of a late fusion
    predictions,       \* the prediction vector that is scored
    report,            \* the evaluation printed last (accuracy, confusion matrix, counts)
    ret,               \* the returned value
    raised,            \* the exception that ended the call, "none" otherwise
    x,                 \* optimize_c's loop variable: the exponent range() yields next
    swept,             \* the values of C whose evaluation optimize_c printed to its end
    df_upsampled       \* upsample_data's balanced training frame

vars == <<pc, fn, multimodal_files, models, train_data, test_data, train_labels,
          test_labels, fit_calls, predict_calls, prediction_matrix, predictions,
          report, ret, raised, x, swept, df_upsampled>>

----------------------------------------------------------------------------
(* Bounds of the input sets *)

MaxVal == 2
MaxCols == 2
MaxRows == 2
MinScore == 2
MaxScore == 6
MaxTables == 2
MaxModels == 4
NumSamples == 3
TrainRows == 3
MetricRows == 4

(* Program constants *)

NumModels == 3
CLow == -5
CHigh == 5

----------------------------------------------------------------------------
(* Exact arithmetic *)

Abs(n) == IF n < 0 THEN -n ELSE n

RECURSIVE GCD(_, _)
GCD(a, b) == IF b = 0 THEN a ELSE GCD(b, a % b)

NaN == <<0, 0>>
IsNaN(c) == c[2] = 0
Rat(n) == <<n, 1>>
Reduce(n, d) ==
    LET g == GCD(Abs(n), Abs(d))
    IN  IF d < 0 THEN <<(-n) \div g, (-d) \div g>> ELSE <<n \div g, d \div g>>
RatAdd(a, b) == Reduce(a[1] * b[2] + b[1] * a[2], a[2] * b[2])
RatSub(a, b) == Reduce(a[1] * b[2] - b[1] * a[2], a[2] * b[2])
RatMul(a, b) == Reduce(a[1] * b[1], a[2] * b[2])
RatAbs(a) == <<Abs(a[1]), a[2]>>
RatDivInt(a, n) == Reduce(a[1], a[2] * n)

RECURSIVE RatSum(_)
RatSum(s) == IF s = <<>> THEN Rat(0) ELSE RatAdd(s[1], RatSum(Tail(s)))

Count(s, v) == Cardinality({i \in 1..Len(s) : s[i] = v})

----------------------------------------------------------------------------
(* Matrices *)

NRows(M) == Len(M)
NCols(M) == IF M = <<>> THEN 0 ELSE Len(M[1])
Column(M, j) == [i \in 1..NRows(M) |-> M[i][j]]
HasNaN(M) == \E i \in 1..NRows(M) : \E j \in 1..Len(M[i]) : IsNaN(M[i][j])

(* np.nanmean: the mean of the entries that are not NaN, NaN when there is none *)
RECURSIVE Observed(_)
Observed(vals) ==
    IF vals = <<>> THEN <<>>
    ELSE IF IsNaN(vals[1]) THEN Observed(Tail(vals))
    ELSE <<vals[1]>> \o Observed(Tail(vals))

nanmean(vals) ==
    LET present == Observed(vals)
    IN  IF present = <<>> THEN NaN ELSE RatDivInt(RatSum(present), Len(present))

----------------------------------------------------------------------------
(* sklearn.preprocessing.Imputer(missing_values='NaN', strategy='mean',    *)
(* axis=0).  fit keeps one mean per column, NaN for a column without an    *)
(* observed value; transform deletes the columns whose statistic is NaN    *)
(* (silently: verbose is 0) and fills the other columns' missing entries.  *)

Imputer_fit(data) == [j \in 1..NCols(data) |-> nanmean(Column(data, j))]

RECURSIVE ValidIndexes(_, _)
(* the columns, ascending, whose statistic is not NaN *)
ValidIndexes(statistics, j) ==
    IF j > Len(statistics) THEN <<>>
    ELSE IF IsNaN(statistics[j]) THEN ValidIndexes(statistics, j + 1)
    ELSE <<j>> \o ValidIndexes(statistics, j + 1)

Imputer_transform(statistics, X) ==
    LET valid == ValidIndexes(statistics, 1)
    IN  [i \in 1..NRows(X) |->
            [k \in 1..Len(valid) |->
                IF IsNaN(X[i][valid[k]]) THEN statistics[valid[k]] ELSE X[i][valid[k]]]]

handle_nans(data) == Imputer_transform(Imputer_fit(data), data)

----------------------------------------------------------------------------
(* The estimators (svm.SVR, svm.SVC, RandomForestClassifier, PCA).  fit    *)
(* validates its input: NaN or a matrix without columns raises ValueError, *)
(* and SVC needs two classes.  predict validates too, and needs as many    *)
(* columns as fit saw.                                                     *)

Classes(y) == {y[i] : i \in 1..Len(y)}

FitRaises(kind, X, y) ==
    \/ NCols(X) = 0
    \/ HasNaN(X)
    \/ kind = "SVC" /\ Cardinality(Classes(y)) < 2

PredictRaises(X, T) == HasNaN(T) \/ NCols(T) # NCols(X)

(* What clf.predict can return for n rows: a classifier answers with     *)
(* classes it was fitted on, a regressor with scores; the scores are the  *)
(* integers from the smallest to the largest training score.              *)
ClassOutputs(y, n) == [1..n -> Classes(y)]
RegressionOutputs(y, n) ==
    LET lo == CHOOSE a \in Classes(y) : \A b \in Classes(y) : a[1] <= b[1]
        hi == CHOOSE a \in Classes(y) : \A b \in Classes(y) : b[1] <= a[1]
    IN  [1..n -> {Rat(v) : v \in lo[1]..hi[1]}]

----------------------------------------------------------------------------
(* sklearn.metrics *)

RECURSIVE SortSet(_)
SortSet(S) ==
    IF S = {} THEN <<>>
    ELSE LET m == CHOOSE a \in S : \A b \in S : a <= b
         IN  <<m>> \o SortSet(S \ {m})

accuracy_score(y_true, y_pred) ==
    Reduce(Cardinality({i \in 1..Len(y_true) : y_true[i] = y_pred[i]}), Len(y_true))

(* rows are the classes of the first argument, columns those of the second *)
confusion_matrix(y_true, y_pred) ==
    LET labels == SortSet(Classes(y_true) \cup Classes(y_pred))
    IN  [i \in 1..Len(labels) |->
            [j \in 1..Len(labels) |->
                Cardinality({r \in 1..Len(y_true) :
                    y_true[r] = labels[i] /\ y_pred[r] = labels[j]})]]

RECURSIVE ravel(_)
ravel(M) == IF M = <<>> THEN <<>> ELSE M[1] \o ravel(Tail(M))

mean_absolute_error(a, b) ==
    RatDivInt(RatSum([i \in 1..Len(a) |-> RatAbs(RatSub(a[i], b[i]))]), Len(a))

mean_squared_error(a, b) ==
    RatDivInt(RatSum([i \in 1..Len(a) |->
        RatMul(RatSub(a[i], b[i]), RatSub(a[i], b[i]))]), Len(a))

(* q ** 0.5, kept as the square root of its exact radicand *)
pow_half(q) == [sqrt_of |-> q]

----------------------------------------------------------------------------
(* Outcomes *)

NoValue == <<>>

(* an estimator call that returned, and one that raised *)
Ok(X) == [X |-> X, ok |-> TRUE]
Failed(X) == [X |-> X, ok |-> FALSE]

Report(accuracy, matrix, counts) ==
    [accuracy |-> accuracy, matrix |-> matrix, counts |-> counts]

(* "tn, fp, fn, tp = confusion_matrix(...).ravel()" needs exactly four values *)
UnpackRaises(matrix) == Len(ravel(matrix)) # 4

(* The end of a call: what it left behind.  The arguments are never changed. *)
Leave(fc, pcalls, pm, p, rep, r, exc) ==
    /\ fit_calls' = fc
    /\ predict_calls' = pcalls
    /\ prediction_matrix' = pm
    /\ predictions' = p
    /\ report' = rep
    /\ ret' = r
    /\ raised' = exc
    /\ pc' = IF exc = "none" THEN "done" ELSE "raised"
    /\ UNCHANGED <<fn, multimodal_files, models, train_data, test_data,
                   train_labels, test_labels>>

Outcome(fc, pcalls, pm, p, rep, r, exc) ==
    /\ Leave(fc, pcalls, pm, p, rep, r, exc)
    /\ UNCHANGED <<x, swept, df_upsampled>>

----------------------------------------------------------------------------
(* predict_regression *)

predict_regression ==
    /\ pc = "start"
    /\ fn = "predict_regression"
    /\ LET train_imp == Imputer_transform(Imputer_fit(train_data), train_data)
           test_imp == Imputer_transform(Imputer_fit(test_data), test_data)
       IN  IF FitRaises("SVR", train_imp, train_labels)
           THEN Outcome(<<Failed(train_imp)>>, <<>>, <<>>, <<>>, NoValue, NoValue, "ValueError")
           ELSE IF PredictRaises(train_imp, test_imp)
           THEN Outcome(<<Ok(train_imp)>>, <<Failed(test_imp)>>, <<>>, <<>>, NoValue, NoValue, "ValueError")
           ELSE \E p \in RegressionOutputs(train_labels, NRows(test_imp)) :
                   Outcome(<<Ok(train_imp)>>, <<Ok(test_imp)>>, <<>>, p, NoValue,
                           [MAE |-> mean_absolute_error(p, test_labels),
                            RMSE |-> pow_half(mean_squared_error(p, test_labels))],
                           "none")

(* predict_class and predict_class_forest: the same body around another estimator *)
ClassifyAndScore(kind) ==
    LET train_imp == Imputer_transform(Imputer_fit(train_data), train_data)
        test_imp == Imputer_transform(Imputer_fit(test_data), test_data)
    IN  IF FitRaises(kind, train_imp, train_labels)
        THEN Outcome(<<Failed(train_imp)>>, <<>>, <<>>, <<>>, NoValue, NoValue, "ValueError")
        ELSE IF PredictRaises(train_imp, test_imp)
        THEN Outcome(<<Ok(train_imp)>>, <<Failed(test_imp)>>, <<>>, <<>>, NoValue, NoValue, "ValueError")
        ELSE \E p \in ClassOutputs(train_labels, NRows(test_imp)) :
                LET accuracy == accuracy_score(test_labels, p)
                    matrix == confusion_matrix(test_labels, p)
                IN  IF UnpackRaises(matrix)
                    THEN Outcome(<<Ok(train_imp)>>, <<Ok(test_imp)>>, <<>>, p,
                                 Report(accuracy, matrix, <<>>), NoValue, "ValueError")
                    ELSE Outcome(<<Ok(train_imp)>>, <<Ok(test_imp)>>, <<>>, p,
                                 Report(accuracy, matrix, ravel(matrix)), accuracy, "none")

predict_class ==
    /\ pc = "start"
    /\ fn = "predict_class"
    /\ ClassifyAndScore("SVC")

predict_class_forest ==
    /\ pc = "start"
    /\ fn = "predict_class_forest"
    /\ ClassifyAndScore("RandomForest")

(* add_pca: the projections themselves are opaque *)
add_pca ==
    /\ pc = "start"
    /\ fn = "add_pca"
    /\ LET train == handle_nans(train_data)
           test == handle_nans(test_data)
       IN  IF FitRaises("PCA", train, <<>>)
           THEN Outcome(<<Failed(train)>>, <<>>, <<>>, <<>>, NoValue, NoValue, "ValueError")
           ELSE IF PredictRaises(train, test)
           THEN Outcome(<<Ok(train)>>, <<Failed(test)>>, <<>>, <<>>, NoValue, NoValue, "ValueError")
           ELSE Outcome(<<Ok(train)>>, <<Ok(test)>>, <<>>, <<>>, NoValue,
                        [train_pca_features |-> [pca_of |-> train],
                         test_pca_features |-> [pca_of |-> test]], "none")

----------------------------------------------------------------------------
(* Late fusion.  Both functions take exactly model1, model2, model3: the   *)
(* modalities handed over are the positional arguments, and any other      *)
(* number of them is a TypeError at the call.                              *)

(* the first modality of the loop whose fit or predict raises, 0 if none *)
FirstFailure(kind, trains, tests) ==
    LET bad == {i \in 1..Len(trains) :
                   \/ FitRaises(kind, trains[i], train_labels)
                   \/ PredictRaises(trains[i], tests[i])}
    IN  IF bad = {} THEN 0 ELSE CHOOSE i \in bad : \A j \in bad : i <= j

(* the estimator calls of a loop that raises at modality f *)
FitsUpTo(kind, trains, f) ==
    [i \in 1..f |->
        IF i = f /\ FitRaises(kind, trains[f], train_labels)
        THEN Failed(trains[i]) ELSE Ok(trains[i])]

PredictsUpTo(kind, trains, tests, f) ==
    [i \in 1..(f - 1) |-> Ok(tests[i])]
        \o (IF FitRaises(kind, trains[f], train_labels) THEN <<>> ELSE <<Failed(tests[f])>>)

AllOk(Xs) == [i \in 1..Len(Xs) |-> Ok(Xs[i])]

(* iteration order of a Python 2 dict keyed by small non-negative integers: *)
(* the slot of key k is hash(k) = k, so the keys come out ascending         *)
DictOrder(keys) == SortSet(keys)

RECURSIVE SortedByCountDesc(_)
(* sorted(items, key=itemgetter(1), reverse=True): stable *)
SortedByCountDesc(items) ==
    IF items = <<>> THEN <<>>
    ELSE LET m == CHOOSE i \in 1..Len(items) :
                      /\ \A j \in 1..Len(items) : items[j][2] <= items[i][2]
                      /\ \A j \in 1..(i - 1) : items[j][2] < items[i][2]
         IN  <<items[m]>>
                 \o SortedByCountDesc(SubSeq(items, 1, m - 1) \o SubSeq(items, m + 1, Len(items)))

(* Counter(labels).most_common() *)
most_common(labels) ==
    LET keys == DictOrder(Classes(labels))
    IN  SortedByCountDesc([k \in 1..Len(keys) |-> <<keys[k], Count(labels, keys[k])>>])

(* mutant: the last entry of most_common() instead of the first *)
majority_vote_least(labels) == most_common(labels)[Len(most_common(labels))][1]

majority_vote(labels) == most_common(labels)[1][1]

(* mutant: the vote runs over the rows of the frame, one modality's    *)
(* predictions at a time                                              *)
vote_preds_by_row(pm) == [c \in 1..Len(pm) |-> majority_vote(pm[c])]

(* for column in matrix: the votes of all modalities on one test row *)
vote_preds(pm) ==
    [c \in 1..Len(pm[1]) |-> majority_vote([i \in 1..Len(pm) |-> pm[i][c]])]

predict_class_majorityvote ==
    /\ pc = "start"
    /\ fn = "predict_class_majorityvote"
    /\ IF Len(models) # NumModels
       THEN Outcome(<<>>, <<>>, <<>>, <<>>, NoValue, NoValue, "TypeError")
       ELSE LET trains == [i \in 1..NumModels |-> handle_nans(models[i][1])]
                tests == [i \in 1..NumModels |-> handle_nans(models[i][2])]
                f == FirstFailure("SVC", trains, tests)
            IN  IF f # 0
                THEN Outcome(FitsUpTo("SVC", trains, f), PredictsUpTo("SVC", trains, tests, f),
                             <<>>, <<>>, NoValue, NoValue, "ValueError")
                ELSE \E pm \in [1..NumModels -> ClassOutputs(train_labels, NRows(tests[1]))] :
                        LET votes == vote_preds(pm)
                            accuracy == accuracy_score(test_labels, votes)
                            matrix == confusion_matrix(test_labels, votes)
                        IN  IF UnpackRaises(matrix)
                            THEN Outcome(AllOk(trains), AllOk(tests), pm, votes,
                                         Report(accuracy, matrix, <<>>), NoValue, "ValueError")
                            ELSE Outcome(AllOk(trains), AllOk(tests), pm, votes,
                                         Report(accuracy, matrix, ravel(matrix)), NoValue, "none")

(* mutant: np.sum instead of np.mean *)
late_predictions_sum(pm) ==
    [c \in 1..Len(pm[1]) |-> RatSum([i \in 1..Len(pm) |-> pm[i][c]])]

(* np.mean(prediction_matrix, axis=0) *)
late_predictions(pm) ==
    [c \in 1..Len(pm[1]) |-> RatDivInt(RatSum([i \in 1..Len(pm) |-> pm[i][c]]), Len(pm))]

late_fusion_average ==
    /\ pc = "start"
    /\ fn = "late_fusion_average"
    /\ IF Len(models) # NumModels
       THEN Outcome(<<>>, <<>>, <<>>, <<>>, NoValue, NoValue, "TypeError")
       ELSE LET trains == [i \in 1..NumModels |->
                              Imputer_transform(Imputer_fit(models[i][1]), models[i][1])]
                tests == [i \in 1..NumModels |->
                              Imputer_transform(Imputer_fit(models[i][2]), models[i][2])]
                f == FirstFailure("SVR", trains, tests)
            IN  IF f # 0
                THEN Outcome(FitsUpTo("SVR", trains, f), PredictsUpTo("SVR", trains, tests, f),
                             <<>>, <<>>, NoValue, NoValue, "ValueError")
                ELSE \E pm \in [1..NumModels -> RegressionOutputs(train_labels, NRows(tests[1]))] :
                        LET late == late_predictions(pm)
                        IN  Outcome(AllOk(trains), AllOk(tests), pm, late,
                                    [MAE |-> mean_absolute_error(late, test_labels),
                                     RMSE |-> pow_half(mean_squared_error(late, test_labels))],
                                    NoValue, "none")

----------------------------------------------------------------------------
(* upsample_data *)

(* mutant: fillna(..., inplace=True), every missing entry becomes its      *)
(* column's mean                                                           *)
fillna_inplace(data) ==
    [i \in 1..NRows(data) |->
        [j \in 1..NCols(data) |->
            IF IsNaN(data[i][j]) THEN nanmean(Column(data, j)) ELSE data[i][j]]]

(* line 264, df.fillna(df.mean()): fillna returns the filled copy, the call *)
(* drops it, and df is what it was                                          *)
fillna(data) == data

(* the frame with its index and the label column *)
DataFrame(data, labels) ==
    [i \in 1..NRows(data) |-> [index |-> i, row |-> data[i], label |-> labels[i]]]

upsample_data ==
    /\ pc = "start"
    /\ fn = "upsample_data"
    /\ UNCHANGED <<x, swept>>
    /\ LET df == DataFrame(fillna(train_data), train_labels)
           df_majority == SelectSeq(df, LAMBDA r : r.label = 0)
           df_minority == SelectSeq(df, LAMBDA r : r.label = 1)
           n_samples == Len(df_majority)
       IN  IF df_minority = <<>> /\ n_samples > 0
           THEN \* resample draws indices below 0
                /\ df_upsampled' = df_upsampled
                /\ Leave(<<>>, <<>>, <<>>, <<>>, NoValue, NoValue, "ValueError")
           ELSE \E pick \in [1..n_samples -> 1..Len(df_minority)] :
                   LET df_minority_upsampled == [k \in 1..n_samples |-> df_minority[pick[k]]]
                       up == df_majority \o df_minority_upsampled
                       X == [k \in 1..Len(up) |-> up[k].row]
                       y == [k \in 1..Len(up) |-> up[k].label]
                       test == test_data
                   IN  /\ df_upsampled' = up
                       /\ IF FitRaises("SVC", X, y)
                          THEN Leave(<<Failed(X)>>, <<>>, <<>>, <<>>, NoValue, NoValue,
                                     "ValueError")
                          ELSE IF PredictRaises(X, test)
                          THEN Leave(<<Ok(X)>>, <<Failed(test)>>, <<>>, <<>>, NoValue, NoValue,
                                     "ValueError")
                          ELSE \E preds \in ClassOutputs(y, NRows(test)) :
                                  Leave(<<Ok(X)>>, <<Ok(test)>>, <<>>, preds,
                                        Report(accuracy_score(preds, test_labels),
                                               confusion_matrix(preds, test_labels), <<>>),
                                        NoValue, "none")

----------------------------------------------------------------------------
(* optimize_c *)

RECURSIVE IntPow10(_)
IntPow10(n) == IF n = 0 THEN 1 ELSE 10 * IntPow10(n - 1)

(* 10 ** e *)
Pow10(e) == IF e < 0 THEN <<1, IntPow10(-e)>> ELSE <<IntPow10(e), 1>>

(* lines 302-305: the imputation, and range(-5, 5) about to yield -5 *)
optimize_c ==
    /\ pc = "start"
    /\ fn = "optimize_c"
    /\ pc' = "loop"
    /\ x' = CLow
    /\ UNCHANGED <<fn, multimodal_files, models, train_data, test_data, train_labels,
                   test_labels, fit_calls, predict_calls, prediction_matrix, predictions,
                   report, ret, raised, swept, df_upsampled>>

(* one pass of the for loop, lines 306-319 *)
optimize_c_iteration ==
    /\ pc = "loop"
    /\ x < CHigh
    /\ UNCHANGED <<fn, multimodal_files, models, train_data, test_data, train_labels,
                   test_labels, prediction_matrix, df_upsampled>>
    /\ LET train == handle_nans(train_data)
           test == handle_nans(test_data)
           C == Pow10(x)
           Raise(fc, pcalls, p, rep) ==
               /\ fit_calls' = fc
               /\ predict_calls' = pcalls
               /\ predictions' = p
               /\ report' = rep
               /\ pc' = "raised"
               /\ raised' = "ValueError"
               /\ UNCHANGED <<x, swept, ret>>
       IN  IF FitRaises("SVC", train, train_labels)
           THEN Raise(Append(fit_calls, Failed(train)), predict_calls, predictions, report)
           ELSE IF PredictRaises(train, test)
           THEN Raise(Append(fit_calls, Ok(train)), Append(predict_calls, Failed(test)),
                      predictions, report)
           ELSE \E p \in ClassOutputs(train_labels, NRows(test)) :
                   LET accuracy == accuracy_score(test_labels, p)
                       matrix == confusion_matrix(test_labels, p)
                   IN  IF UnpackRaises(matrix)
                       THEN Raise(Append(fit_calls, Ok(train)), Append(predict_calls, Ok(test)), p,
                                  Report(accuracy, matrix, <<>>))
                       ELSE /\ fit_calls' = Append(fit_calls, Ok(train))
                            /\ predict_calls' = Append(predict_calls, Ok(test))
                            /\ predictions' = p
                            /\ report' = Report(accuracy, matrix, ravel(matrix))
                            /\ swept' = Append(swept, C)
                            /\ x' = x + 1
                            /\ UNCHANGED <<pc, raised, ret>>

(* range(-5, 5) is exhausted: the function ends and returns None *)
optimize_c_return ==
    /\ pc = "loop"
    /\ x = CHigh
    /\ pc' = "done"
    /\ UNCHANGED <<fn, multimodal_files, models, train_data, test_data, train_labels,
                   test_labels, fit_calls, predict_calls, prediction_matrix, predictions,
                   report, ret, raised, x, swept, df_upsampled>>

----------------------------------------------------------------------------
(* early_fusion.  A table is the sequence of its columns, a column its     *)
(* header (a sequence of characters) and its values.                       *)

RECURSIVE lstrip(_)
lstrip(name) == IF name # <<>> /\ name[1] = " " THEN lstrip(Tail(name)) ELSE name

RECURSIVE rstrip(_)
rstrip(name) ==
    IF name # <<>> /\ name[Len(name)] = " "
    THEN rstrip(SubSeq(name, 1, Len(name) - 1)) ELSE name

strip(name) == rstrip(lstrip(name))

stats_names == <<<<"m", "e", "a", "n">>>>

RECURSIVE Concat(_)
Concat(ss) == IF ss = <<>> THEN <<>> ELSE ss[1] \o Concat(Tail(ss))

early_fusion ==
    /\ pc = "start"
    /\ fn = "early_fusion"
    /\ LET columns == Concat(multimodal_files)
           mm_names == [k \in 1..Len(columns) |->
                           strip(columns[k].name) \o <<"_">> \o stats_names[1]]
           mm_feats == [k \in 1..Len(columns) |-> nanmean(columns[k].vals)]
       IN  Outcome(<<>>, <<>>, <<>>, <<>>, NoValue,
                   [mm_names |-> mm_names, mm_feats |-> mm_feats], "none")

----------------------------------------------------------------------------
(* The state before a call, and the arguments of the calls *)

Fresh ==
    /\ pc = "start"
    /\ fit_calls = <<>>
    /\ predict_calls = <<>>
    /\ prediction_matrix = <<>>
    /\ predictions = <<>>
    /\ report = NoValue
    /\ ret = NoValue
    /\ raised = "none"
    /\ x = CLow
    /\ swept = <<>>
    /\ df_upsampled = <<>>

(* values 1..MaxVal in a one-column matrix, the value 1 in a wider one *)
Cells(c) == {NaN} \cup {Rat(v) : v \in 1..(IF c = 1 THEN MaxVal ELSE 1)}
Matrices(r, c) == [1..r -> [1..c -> Cells(c)]]
BinaryLabels(n) == [1..n -> {0, 1}]

RegressionFns == {"predict_regression", "late_fusion_average"}

(* one aligned label vector with both classes (or two scores) *)
SomeLabels(f, n) ==
    IF f \in RegressionFns THEN [i \in 1..n |-> Rat((i + 1) % 2)]
    ELSE [i \in 1..n |-> (i + 1) % 2]

(* a modality without missing values *)
PlainModality(r) ==
    <<[i \in 1..r |-> <<Rat(1)>>], [i \in 1..r |-> <<Rat(1)>>]>>

(* the scenario "training values [1, 2, missing], transform([missing, 3])" *)
ScenarioTrain == <<<<Rat(1)>>, <<Rat(2)>>, <<NaN>>>>
ScenarioTest == <<<<NaN>>, <<Rat(3)>>>>

SingleFns ==
    {"predict_regression", "predict_class", "predict_class_forest", "add_pca",
     "optimize_c", "upsample_data"}
FusionFns == {"predict_class_majorityvote", "late_fusion_average"}

(* Missing values: every function that hands matrices to an estimator, on  *)
(* all train/test matrices of MaxRows rows and up to MaxCols columns.  A   *)
(* late fusion gets them as its second modality.                           *)
InitImpute ==
    /\ Fresh
    /\ multimodal_files = <<>>
    /\ \E c \in 1..MaxCols :
         \E tr \in Matrices(MaxRows, c) \cup {ScenarioTrain} :
           \E te \in Matrices(MaxRows, c) \cup {ScenarioTest} :
             /\ NCols(tr) = NCols(te)
             /\ \/ /\ fn \in SingleFns
                   /\ models = <<>>
                   /\ train_data = tr
                   /\ test_data = te
                \/ /\ fn \in FusionFns
                   /\ c = 1
                   /\ NRows(tr) = MaxRows
                   /\ NRows(te) = MaxRows
                   /\ models = <<PlainModality(MaxRows), <<tr, te>>, PlainModality(MaxRows)>>
                   /\ train_data = <<>>
                   /\ test_data = <<>>
             /\ train_labels = SomeLabels(fn, NRows(tr))
             /\ test_labels = SomeLabels(fn, NRows(te))

NextImpute ==
    \/ predict_regression
    \/ predict_class
    \/ predict_class_forest
    \/ add_pca
    \/ predict_class_majorityvote
    \/ late_fusion_average
    \/ upsample_data
    \/ optimize_c
    \/ optimize_c_iteration
    \/ optimize_c_return

SpecImpute == InitImpute /\ [][NextImpute]_vars

(* the (train, test) arguments behind the k-th estimator call *)
ArgsOfCall(k) == IF models # <<>> THEN models[k] ELSE <<train_data, test_data>>

AllObserved(data) == \A j \in 1..NCols(data) : ~IsNaN(nanmean(Column(data, j)))

(* the test matrix with every missing entry replaced by the mean of the   *)
(* observed training values of its column                                 *)
FilledFromTrain(train, test) ==
    [i \in 1..NRows(test) |->
        [j \in 1..NCols(test) |->
            IF IsNaN(test[i][j]) THEN nanmean(Column(train, j)) ELSE test[i][j]]]

(* C1: in every prediction path the matrix handed to predict is the test  *)
(* matrix with each missing entry of column j replaced by the mean of the *)
(* observed TRAINING values of column j; in the scenario, the training    *)
(* column [1, 2, missing] turns the test column [missing, 3] into         *)
(* [1.5, 3].                                                              *)
C1_TestFilledWithTrainingMeans ==
    fn # "upsample_data" =>
        /\ \A k \in 1..Len(predict_calls) :
             AllObserved(ArgsOfCall(k)[1]) =>
                 predict_calls[k].X = FilledFromTrain(ArgsOfCall(k)[1], ArgsOfCall(k)[2])
        /\ (train_data = ScenarioTrain /\ test_data = ScenarioTest /\ predict_calls # <<>>) =>
             predict_calls[1].X = <<<<(<<3, 2>>)>>, <<Rat(3)>>>>

(* C7: whenever every training column has an observed value, the matrix   *)
(* handed to fit and the matrix handed to predict hold no missing value,  *)
(* in every function that hands matrices to an estimator.                 *)
C7_NoMissingAfterImputation ==
    /\ \A k \in 1..Len(fit_calls) :
         AllObserved(ArgsOfCall(k)[1]) => ~HasNaN(fit_calls[k].X)
    /\ \A k \in 1..Len(predict_calls) :
         AllObserved(ArgsOfCall(k)[1]) => ~HasNaN(predict_calls[k].X)

SomeTrainColumnAllMissing ==
    IF models # <<>>
    THEN \E k \in 1..Len(models) : ~AllObserved(models[k][1])
    ELSE ~AllObserved(train_data)

(* C8: a call whose training matrix has a column without an observed      *)
(* value ends with AllMissingColumnError, with no model fitted and no     *)
(* metrics produced.                                                      *)
C8_AllMissingColumnIsAnError ==
    (pc \in {"done", "raised"} /\ SomeTrainColumnAllMissing) =>
        /\ raised = "AllMissingColumnError"
        /\ \A k \in 1..Len(fit_calls) : ~fit_calls[k].ok
        /\ report = NoValue
        /\ ret = NoValue

(* the column is dropped without a word: the call returns normally *)
C8_SilentDropReached ==
    /\ pc = "done"
    /\ SomeTrainColumnAllMissing
    /\ raised = "none"
    /\ fit_calls # <<>>

----------------------------------------------------------------------------
(* Majority vote *)

(* predict_class_majorityvote handed 2..MaxModels modalities without       *)
(* missing values, NumSamples test rows, every test labelling              *)
InitVote ==
    /\ Fresh
    /\ fn = "predict_class_majorityvote"
    /\ multimodal_files = <<>>
    /\ train_data = <<>>
    /\ test_data = <<>>
    /\ \E k \in 2..MaxModels : models = [i \in 1..k |-> PlainModality(NumSamples)]
    /\ train_labels = SomeLabels(fn, NumSamples)
    /\ test_labels \in BinaryLabels(NumSamples)

SpecVote == InitVote /\ [][predict_class_majorityvote]_vars

(* the votes of the modalities, in modality order, on test row c *)
VotesAt(c) == [i \in 1..Len(prediction_matrix) |-> prediction_matrix[i][c]]

(* the first position of label v among the votes, 0 when nobody voted v *)
FirstSeen(votes, v) ==
    IF \E i \in 1..Len(votes) : votes[i] = v
    THEN CHOOSE i \in 1..Len(votes) :
             votes[i] = v /\ \A j \in 1..(i - 1) : votes[j] # v
    ELSE 0

(* v wins the votes: no label has more votes, and among the labels with *)
(* as many votes v is seen first                                        *)
WinsVote(votes, v) ==
    /\ Count(votes, v) > 0
    /\ \A w \in Classes(votes) :
         \/ Count(votes, w) < Count(votes, v)
         \/ Count(votes, w) = Count(votes, v) /\ FirstSeen(votes, v) <= FirstSeen(votes, w)

ScenarioVotes == <<<<1, 1, 1>>, <<0, 1, 0>>, <<1, 0, 0>>>>

(* C3 as claimed: the three modality predictions [1,1,1], [0,1,0],        *)
(* [1,0,0] combine to [1, 0, 0].                                          *)
C3_ScenarioGives100 ==
    prediction_matrix = ScenarioVotes => predictions = <<1, 0, 0>>

(* C3: the three modality predictions [1,1,1], [0,1,0], [1,0,0] combine   *)
(* to [1, 1, 0]: the second sample has the votes 1, 1, 0, which is no tie *)
C3_ScenarioGives110 ==
    prediction_matrix = ScenarioVotes =>
        /\ predictions = <<1, 1, 0>>
        /\ VotesAt(2) = <<1, 1, 0>>

C3_ScenarioReached ==
    /\ prediction_matrix = ScenarioVotes
    /\ predictions # <<>>
    /\ pc = "done"

----------------------------------------------------------------------------
(* Averaging *)

(* late_fusion_average handed 2..MaxModels modalities without missing     *)
(* values and two test rows; the regressors answer with scores from       *)
(* MinScore to MaxScore                                                   *)
InitAverage ==
    /\ Fresh
    /\ fn = "late_fusion_average"
    /\ multimodal_files = <<>>
    /\ train_data = <<>>
    /\ test_data = <<>>
    /\ \E k \in 2..MaxModels : models = [i \in 1..k |-> PlainModality(2)]
    /\ train_labels = <<Rat(MinScore), Rat(MaxScore)>>
    /\ test_labels \in [1..2 -> {Rat(MinScore + 1), Rat(MaxScore - 1)}]

SpecAverage == InitAverage /\ [][late_fusion_average]_vars

RECURSIVE SumTo(_, _)
(* F[1] + ... + F[n] *)
SumTo(F, n) == IF n = 0 THEN 0 ELSE F[n] + SumTo(F, n - 1)

(* the sum of the modalities' integer scores at row c *)
ScoreSum(c) ==
    SumTo([i \in 1..Len(prediction_matrix) |-> prediction_matrix[i][c][1]],
          Len(prediction_matrix))

(* the rational q is the fraction n / d *)
IsFraction(q, n, d) == q[2] > 0 /\ q[1] * d = n * q[2]

(* the combined vector is the mean over k modalities and is scored with   *)
(* MAE = mean |p - y| and RMSE = sqrt(mean (p - y)^2); the errors are     *)
(* zero exactly when the combined vector is the label vector              *)
AveragedAndScored(k) ==
    LET n == Len(test_labels)
        dev == [c \in 1..n |-> ScoreSum(c) - k * test_labels[c][1]]
    IN  /\ Len(prediction_matrix) = k
        /\ Len(predictions) = n
        /\ \A c \in 1..n : IsFraction(predictions[c], ScoreSum(c), k)
        /\ IsFraction(report.MAE, SumTo([c \in 1..n |-> Abs(dev[c])], n), k * n)
        /\ IsFraction(report.RMSE.sqrt_of, SumTo([c \in 1..n |-> dev[c] * dev[c]], n),
                      k * k * n)
        /\ report.MAE = Rat(0) <=> predictions = test_labels
        /\ report.RMSE = pow_half(Rat(0)) <=> predictions = test_labels

----------------------------------------------------------------------------
(* Class balancing *)

(* upsample_data on every one-column training matrix of TrainRows rows    *)
(* with every binary labelling, and every one-row test set                *)
InitBalance ==
    /\ Fresh
    /\ fn = "upsample_data"
    /\ multimodal_files = <<>>
    /\ models = <<>>
    /\ train_data \in Matrices(TrainRows, 1)
    /\ train_labels \in BinaryLabels(TrainRows)
    /\ test_data \in Matrices(1, 1)
    /\ test_labels \in BinaryLabels(1)

SpecBalance == InitBalance /\ [][upsample_data]_vars

MinorityIsOne ==
    /\ Count(train_labels, 1) > 0
    /\ Count(train_labels, 1) < Count(train_labels, 0)

(* the frame has been put together (line 279) *)
Balanced == fn = "upsample_data" /\ pc # "start" /\ MinorityIsOne

(* C5: on a training set with both classes and label 1 the minority, the  *)
(* balanced frame has as many label-1 rows as label-0 rows (twice the     *)
(* majority count in all), holds every original label-0 row unchanged     *)
(* exactly once, holds as label-1 rows only copies of original label-1    *)
(* rows, is what the classifier is fitted on, and the evaluation uses the *)
(* original test features and test labels.                                *)
C5_BalancedTrainingSet ==
    Balanced =>
        LET up == df_upsampled
            n0 == Count(train_labels, 0)
            rows(l) == {k \in 1..Len(up) : up[k].label = l}
        IN  /\ Len(up) = 2 * n0
            /\ Cardinality(rows(0)) = n0
            /\ Cardinality(rows(1)) = n0
            /\ \A i \in 1..Len(train_labels) :
                 train_labels[i] = 0 =>
                     /\ Cardinality({k \in rows(0) : up[k].index = i}) = 1
                     /\ \A k \in rows(0) : up[k].index = i => up[k].row = train_data[i]
            /\ \A k \in rows(1) :
                 /\ train_labels[up[k].index] = 1
                 /\ up[k].row = train_data[up[k].index]
            /\ \A k \in 1..Len(fit_calls) :
                 fit_calls[k].X = [r \in 1..Len(up) |-> up[r].row]
            /\ \A k \in 1..Len(predict_calls) : predict_calls[k].X = test_data
            /\ report # NoValue =>
                 IsFraction(report.accuracy,
                            Cardinality({i \in 1..Len(test_labels) :
                                            predictions[i] = test_labels[i]}),
                            Len(test_labels))

(* a minority row has been copied and the classifier fitted on the *)
(* balanced frame has been evaluated                                *)
C5_UpsampledReached ==
    /\ Balanced
    /\ pc = "done"
    /\ report # NoValue
    /\ \E k1, k2 \in 1..Len(df_upsampled) :
         /\ k1 # k2
         /\ df_upsampled[k1].label = 1
         /\ df_upsampled[k1].index = df_upsampled[k2].index

----------------------------------------------------------------------------
(* Binary-classification metrics *)

Evaluators ==
    {"predict_class", "predict_class_forest", "predict_class_majorityvote",
     "optimize_c", "upsample_data"}

(* every evaluator on data without missing values, MetricRows test rows *)
(* and every test labelling                                             *)
InitMetrics ==
    /\ Fresh
    /\ fn \in Evaluators
    /\ multimodal_files = <<>>
    /\ IF fn = "predict_class_majorityvote"
       THEN /\ models = [i \in 1..NumModels |-> PlainModality(MetricRows)]
            /\ train_data = <<>>
            /\ test_data = <<>>
       ELSE /\ models = <<>>
            /\ train_data = PlainModality(MetricRows)[1]
            /\ test_data = PlainModality(MetricRows)[2]
    /\ train_labels = SomeLabels(fn, MetricRows)
    /\ test_labels \in BinaryLabels(MetricRows)

NextMetrics ==
    \/ predict_class
    \/ predict_class_forest
    \/ predict_class_majorityvote
    \/ upsample_data
    \/ optimize_c
    \/ optimize_c_iteration
    \/ optimize_c_return

SpecMetrics == InitMetrics /\ [][NextMetrics]_vars

(* the rows predicted p whose label is l *)
Tally(p, l) ==
    Cardinality({i \in 1..Len(test_labels) : predictions[i] = p /\ test_labels[i] = l})

(* the four counts an evaluation produced: the unpacked tn, fp, fn, tp,   *)
(* or for upsample_data, which only prints the matrix, its four entries   *)
ProducedCounts ==
    IF fn = "upsample_data" THEN ravel(report.matrix) ELSE report.counts

(* C6: every evaluation, also one in which a single class occurs,         *)
(* produces tn, fp, fn, tp with the test labels as the truth and the      *)
(* model output as the prediction; they sum to the number of rows and     *)
(* accuracy = (tp + tn) / rows; predictions [1,0,1,1] against labels      *)
(* [1,0,0,1] give tp = 2, tn = 1, fp = 1, fn = 0, accuracy 0.75.          *)
C6_ConfusionCounts ==
    (fn \in Evaluators /\ predictions # <<>>) =>
        /\ ProducedCounts = <<Tally(0, 0), Tally(1, 0), Tally(0, 1), Tally(1, 1)>>
        /\ SumTo(ProducedCounts, 4) = Len(test_labels)
        /\ IsFraction(report.accuracy, Tally(1, 1) + Tally(0, 0), Len(test_labels))
        /\ (predictions = <<1, 0, 1, 1>> /\ test_labels = <<1, 0, 0, 1>>) =>
             /\ ProducedCounts = <<1, 1, 0, 2>>
             /\ report.accuracy = <<3, 4>>

(* what does hold of the unpacking evaluators when both classes occur *)
C6_CountsWhenBothClassesOccur ==
    (/\ fn \in Evaluators \ {"upsample_data"}
     /\ predictions # <<>>
     /\ Cardinality(Classes(test_labels) \cup Classes(predictions)) = 2) =>
        /\ report.counts = <<Tally(0, 0), Tally(1, 0), Tally(0, 1), Tally(1, 1)>>
        /\ IsFraction(report.accuracy, Tally(1, 1) + Tally(0, 0), Len(test_labels))

----------------------------------------------------------------------------
(* The sweep of C *)

(* optimize_c on every pair of one-column matrices of MaxRows rows and *)
(* every test labelling                                                *)
InitSweep ==
    /\ Fresh
    /\ fn = "optimize_c"
    /\ multimodal_files = <<>>
    /\ models = <<>>
    /\ train_data \in Matrices(MaxRows, 1)
    /\ test_data \in Matrices(MaxRows, 1)
    /\ train_labels = SomeLabels(fn, MaxRows)
    /\ test_labels \in BinaryLabels(MaxRows)

NextSweep ==
    \/ optimize_c
    \/ optimize_c_iteration
    \/ optimize_c_return

SpecSweep == InitSweep /\ [][NextSweep]_vars

(* 10^-5, 10^-4, ..., 10^4 *)
TenCandidates ==
    <<(<<1, 100000>>), (<<1, 10000>>), (<<1, 1000>>), (<<1, 100>>), (<<1, 10>>),
      (<<1, 1>>), (<<10, 1>>), (<<100, 1>>), (<<1000, 1>>), (<<10000, 1>>)>>

(* C10: on matrices whose columns all have an observed value, the         *)
(* candidates are evaluated in ascending order, each once, each with a    *)
(* new classifier on the same imputed matrices and with accuracy and      *)
(* confusion counts reported; a run that has ended has evaluated all ten  *)
(* and returned nothing.                                                  *)
C10_AllTenCandidatesReported ==
    (fn = "optimize_c" /\ AllObserved(train_data) /\ AllObserved(test_data)) =>
        /\ Len(swept) <= 10
        /\ swept = SubSeq(TenCandidates, 1, Len(swept))
        /\ \A k \in 1..Len(fit_calls) : fit_calls[k].X = handle_nans(train_data)
        /\ \A k \in 1..Len(predict_calls) : predict_calls[k].X = handle_nans(test_data)
        /\ swept # <<>> => Len(report.counts) = 4
        /\ pc \in {"done", "raised"} =>
             /\ swept = TenCandidates
             /\ Len(fit_calls) = 10
             /\ Len(predict_calls) = 10
             /\ raised = "none"
             /\ ret = NoValue

(* what does hold: a run that returns has reported all ten, in order *)
C10_ReturnedRunsReportedAllTen ==
    (fn = "optimize_c" /\ pc = "done") =>
        /\ swept = TenCandidates
        /\ Len(fit_calls) = 10
        /\ ret = NoValue

----------------------------------------------------------------------------
(* Early fusion *)

Headers == {<<"a">>, <<" ", "a">>, <<"b">>}

(* a column without an observed value, with one, with two *)
ColumnVals ==
    {<<NaN, NaN>>, <<Rat(1), NaN>>, <<Rat(1), Rat(2)>>}

FusionColumns == [name : Headers, vals : ColumnVals]

(* read_csv keeps the headers of one file distinct *)
Tables ==
    UNION {{t \in [1..n -> FusionColumns] :
               \A i, j \in 1..n : i # j => t[i].name # t[j].name} : n \in 1..MaxCols}

InitFusion ==
    /\ Fresh
    /\ fn = "early_fusion"
    /\ multimodal_files \in UNION {[1..n -> Tables] : n \in 1..MaxTables}
    /\ models = <<>>
    /\ train_data = <<>>
    /\ test_data = <<>>
    /\ train_labels = <<>>
    /\ test_labels = <<>>

SpecFusion == InitFusion /\ [][early_fusion]_vars

(* C9: the names and the values have the same length, names[i] is the    *)
(* i-th column's header followed by "_mean", in table order then column  *)
(* order, the value is the mean of the column's observed entries (NaN    *)
(* without any), and the names are pairwise distinct.                    *)
C9_NamesAndMeans ==
    (fn = "early_fusion" /\ pc = "done") =>
        LET columns == Concat(multimodal_files)
            names == ret.mm_names
            values == ret.mm_feats
        IN  /\ Len(names) = Len(columns)
            /\ Len(values) = Len(columns)
            /\ \A i \in 1..Len(columns) :
                 /\ names[i] = strip(columns[i].name) \o <<"_", "m", "e", "a", "n">>
                 /\ values[i] = nanmean(columns[i].vals)
            /\ \A i, j \in 1..Len(names) : i # j => names[i] # names[j]

(* what does hold: everything but the distinctness of the names *)
C9_OrderAndMeans ==
    (fn = "early_fusion" /\ pc = "done") =>
        LET columns == Concat(multimodal_files)
        IN  /\ Len(ret.mm_names) = Len(columns)
            /\ Len(ret.mm_feats) = Len(columns)
            /\ \A i \in 1..Len(columns) :
                 /\ ret.mm_names[i] = strip(columns[i].name) \o <<"_", "m", "e", "a", "n">>
                 /\ ret.mm_feats[i] = nanmean(columns[i].vals)

====
